---- MODULE Spec2Model ----
(***************************************************************************)
(* Zentao plugin (backend/plugins/zentao/impl/impl.go): construction of    *)
(* the per-run task data (PrepareTaskData), home-page resolution           *)
(* (getZentaoHomePage), the ordered subtask list (SubTaskMetas) and the    *)
(* teardown hook (Close).                                                  *)
(*                                                                         *)
(* Strings that the code inspects character by character (the endpoint)   *)
(* are sequences of tokens; a token is an indivisible piece of text.       *)
(***************************************************************************)
EXTENDS Integers, Sequences, FiniteSets, TLC

VARIABLES
    \* ---- inputs of one run
    options,        \* decoded form of the options map handed to PrepareTaskData
    skipCollectors, \* taskCtx.SyncPolicy().SkipCollectors
    connections,    \* the stored connection rows, by id
    \* ---- PrepareTaskData's locals and position
    pc,             \* position of the run
    op,             \* *ZentaoOptions, Nil before decoding
    connection,     \* *models.ZentaoConnection (local copy), Nil before line 183
    apiClient,      \* local apiClient, Nil or the client
    data,           \* *tasks.ZentaoTaskData, Nil before line 206
    ret,            \* what PrepareTaskData returned: [data, err]
    \* ---- the world outside PrepareTaskData
    clientState,    \* the HTTP API client: "none", "open", "released"
    releases,       \* number of ApiClient.Release() calls
    dbState,        \* the mirror-database connection: "none", "open", "closed"
    dbAttempts,     \* number of runner.NewGormDb calls
    dbSettings,     \* what the database opener read from the viper it was given
    connLoads,      \* number of connectionHelper.FirstById calls
    scopeLoads,     \* number of Dal.First calls for the scope config
    scopeLoad,      \* outcome of the scope-config load
    taskCtxData,    \* taskCtx.GetData()
    closeErr,       \* what Close returned
    \* ---- home-page resolution on its own
    hpIn, hpOut, hpPc,
    \* ---- execution of the subtask list
    idx, running, finished, started, aborted

prepVars == <<options, skipCollectors, connections, pc, op, connection, apiClient,
              data, ret, clientState, releases, dbState, dbAttempts, dbSettings,
              connLoads, scopeLoads, scopeLoad, taskCtxData, closeErr>>
homeVars == <<hpIn, hpOut, hpPc>>
pipeVars == <<idx, running, finished, started, aborted>>
vars == <<prepVars, homeVars, pipeVars>>

\* a nil error, or an absent string
NULL == "nil"
\* pointers: the nil pointer, a pointer to x, and what a pointer points to
Nil == <<>>
Ref(x) == <<x>>
Deref(p) == p[1]

\* ---- bounds
MaxConnId == 2
MaxScopeConfigId == 2
MaxPathLen == 5

(***************************************************************************)
(* Text                                                                    *)
(***************************************************************************)
\* the tokens endpoints are made of; "<ctl>" is an ASCII control character
SchemeTokens == {"http", "https"}
PathTokens == {"/", "api.php", "v1", "z"}
CtlToken == "<ctl>"

\* strings.Index(s, sep): position of the first occurrence of sep, 0 if none
Index(s, sep) ==
    LET hits == {i \in 1..(Len(s) - Len(sep) + 1) : SubSeq(s, i, i + Len(sep) - 1) = sep}
    IN IF hits = {} THEN 0 ELSE CHOOSE i \in hits : \A j \in hits : i <= j

\* strings.Cut(s, sep): the text before and after the first occurrence of sep
Cut(s, sep) ==
    LET i == Index(s, sep)
    IN IF i = 0
       THEN [before |-> s, after |-> <<>>, found |-> FALSE]
       ELSE [before |-> SubSeq(s, 1, i - 1),
             after |-> SubSeq(s, i + Len(sep), Len(s)),
             found |-> TRUE]

\* url.Parse on an absolute URL: scheme "://" host path; a control character
\* anywhere makes it fail
UrlParse(e) ==
    IF \E i \in 1..Len(e) : e[i] = CtlToken
    THEN [err |-> "invalid control character in URL", Scheme |-> <<>>, Host |-> <<>>, Path |-> <<>>]
    ELSE IF Len(e) >= 2 /\ e[1] \in SchemeTokens /\ e[2] = "://"
    THEN LET rest == SubSeq(e, 3, Len(e))
             slash == Index(rest, <<"/">>)
         IN IF slash = 0
            THEN [err |-> NULL, Scheme |-> <<e[1]>>, Host |-> rest, Path |-> <<>>]
            ELSE [err |-> NULL, Scheme |-> <<e[1]>>,
                  Host |-> SubSeq(rest, 1, slash - 1),
                  Path |-> SubSeq(rest, slash, Len(rest))]
    ELSE [err |-> NULL, Scheme |-> <<>>, Host |-> <<>>, Path |-> e]

ApiSegment == <<"/", "api.php", "/", "v1">>

\* what getZentaoHomePage keeps of the path
ZentaoPath(path) == Cut(path, ApiSegment).before

getZentaoHomePage(endpoint) ==
    IF endpoint = <<>>
    THEN [url |-> <<>>, err |-> "empty endpoint"]
    ELSE LET endpointURL == UrlParse(endpoint)
         IN IF endpointURL.err # NULL
            THEN [url |-> <<>>, err |-> endpointURL.err]
            ELSE [url |-> endpointURL.Scheme \o <<"://">> \o endpointURL.Host
                           \o ZentaoPath(endpointURL.Path),
                  err |-> NULL]

(***************************************************************************)
(* Inputs                                                                  *)
(***************************************************************************)
EndpointSamples ==
    { <<>>,
      <<"http", "://", "h", "/", "api.php", "/", "v1", "/">>,
      <<"https", "://", "h", "/", "z", "/", "api.php", "/", "v1">>,
      <<"http", "://", "h", CtlToken>> }

ConnectionRows ==
    [Endpoint : EndpointSamples,
     DbUrl : {"", "mysql://mirror"},
     DbLoggingLevel : {"", "Info"},
     DbIdleConns : {0, 3},
     DbMaxConns : {0, 7}]

StoredConnectionIds == {1}
StoredScopeConfigIds == {1}

\* process-wide configuration read through taskCtx.GetConfig / GetConfigReader
ProcessConfig ==
    [DB_LOGGING_LEVEL |-> "Error", DB_IDLE_CONNS |-> 10, DB_MAX_CONNS |-> 100]

OptionsSet ==
    [ConnectionId : 0..MaxConnId,
     ScopeConfig : {NULL, "embedded"},
     ScopeConfigId : 0..MaxScopeConfigId]

(***************************************************************************)
(* viper: keys are case-insensitive, an unset key reads as the zero value  *)
(***************************************************************************)
Lower(k) ==
    CASE k = "DB_URL" -> "db_url"
      [] k = "DB_LOGGING_LEVEL" -> "db_logging_level"
      [] k = "DB_IDLE_CONNS" -> "db_idle_conns"
      [] k = "DB_MAX_CONNS" -> "db_max_conns"
      [] k = "DbMaxConns" -> "dbmaxconns"
      [] OTHER -> k

ViperSet(v, k, val) == (Lower(k) :> val) @@ v
ViperGet(v, k, zero) == IF Lower(k) \in DOMAIN v THEN v[Lower(k)] ELSE zero
ViperNew == [k \in {} |-> NULL]

(***************************************************************************)
(* PrepareTaskData, step by step                                           *)
(***************************************************************************)
\* &models.ZentaoConnection{}
ZeroConnection ==
    [Endpoint |-> <<>>, DbUrl |-> "", DbLoggingLevel |-> "", DbIdleConns |-> 0,
     DbMaxConns |-> 0]

\* tasks.DecodeAndValidateTaskOptions: the connection id is required
DecodeAndValidateTaskOptions(o) ==
    IF o.ConnectionId = 0
    THEN [op |-> Nil, err |-> "connectionId is invalid"]
    ELSE [op |-> Ref(o), err |-> NULL]

\* connectionHelper.FirstById(connection, id): fills the row in, or leaves it alone
FirstById(conn, id) ==
    IF id \in DOMAIN connections
    THEN [connection |-> Ref(connections[id]), err |-> NULL]
    ELSE [connection |-> conn, err |-> "record not found"]

\* if err != nil { return nil, ... } after DecodeAndValidateTaskOptions
FailsOnDecodeError(err) == err # NULL

\* if err != nil { return nil, ... } after FirstById
IgnoresConnectionError(err) == FALSE
FailsOnConnectionError(err) == err # NULL

\* if !syncPolicy.SkipCollectors { NewZentaoApiClient ... }
BuildsApiClient(skip) == ~skip

\* if !syncPolicy.SkipCollectors { if connection.DbUrl != "" { ... } }
OpensRemoteDbIgnoringPolicy(skip, conn) == conn.DbUrl # ""
OpensRemoteDbWhenever(skip, conn) == ~skip
OpensRemoteDb(skip, conn) == ~skip /\ conn.DbUrl # ""

\* if op.ScopeConfig == nil && op.ScopeConfigId != 0
LoadsScopeConfig(o) == o.ScopeConfig = NULL /\ o.ScopeConfigId # 0

\* if err != nil && taskCtx.GetDal().IsErrorNotFound(err)
FailsOnScopeConfigError(err) == err # NULL /\ err = "record not found"

\* the connection's mirror-database settings after the defaults are filled in
WithDbDefaults(conn) ==
    [conn EXCEPT
       !.DbLoggingLevel = IF @ = "" THEN ProcessConfig.DB_LOGGING_LEVEL ELSE @,
       !.DbIdleConns = IF @ = 0 THEN ProcessConfig.DB_IDLE_CONNS ELSE @,
       !.DbMaxConns = IF @ = 0 THEN ProcessConfig.DB_MAX_CONNS ELSE @]

\* v := viper.New(); v.Set(...) four times
RemoteDbViper(conn) ==
    ViperSet(ViperSet(ViperSet(ViperSet(ViperNew,
        "DB_URL", conn.DbUrl),
        "DB_LOGGING_LEVEL", conn.DbLoggingLevel),
        "DB_IDLE_CONNS", conn.DbIdleConns),
        "DbMaxConns", conn.DbMaxConns)

\* runner.NewGormDb: the settings it reads from the configuration it is given
NewGormDbReads(v) ==
    [url |-> ViperGet(v, "DB_URL", ""),
     loggingLevel |-> ViperGet(v, "DB_LOGGING_LEVEL", ""),
     idleConns |-> ViperGet(v, "DB_IDLE_CONNS", 0),
     maxConns |-> ViperGet(v, "DB_MAX_CONNS", 0)]

NoSettings == [url |-> "", loggingLevel |-> "", idleConns |-> 0, maxConns |-> 0]

Return(d, e) ==
    /\ ret' = [data |-> d, err |-> e]
    /\ pc' = "returned"

\* lines 174-177
Decode ==
    /\ pc = "decode"
    /\ LET r == DecodeAndValidateTaskOptions(options)
       IN IF FailsOnDecodeError(r.err)
          THEN /\ Return(Nil, "could not decode Zentao options")
               /\ UNCHANGED op
          ELSE /\ op' = r.op
               /\ pc' = "loadConnection"
               /\ UNCHANGED ret
    /\ UNCHANGED <<options, skipCollectors, connections, connection, apiClient, data,
                   clientState, releases, dbState, dbAttempts, dbSettings, connLoads,
                   scopeLoads, scopeLoad, taskCtxData, closeErr>>
    /\ UNCHANGED <<homeVars, pipeVars>>

\* lines 178-187
LoadConnection ==
    /\ pc = "loadConnection"
    /\ connLoads' = connLoads + 1
    /\ LET r == FirstById(Ref(ZeroConnection), Deref(op).ConnectionId)
       IN /\ connection' = r.connection
          /\ IF FailsOnConnectionError(r.err)
             THEN Return(Nil, "unable to get Zentao connection by the given connection ID")
             ELSE /\ pc' = "apiClient"
                  /\ UNCHANGED ret
    /\ UNCHANGED <<options, skipCollectors, connections, op, apiClient, data,
                   clientState, releases, dbState, dbAttempts, dbSettings,
                   scopeLoads, scopeLoad, taskCtxData, closeErr>>
    /\ UNCHANGED <<homeVars, pipeVars>>

\* lines 189-197; tasks.NewZentaoApiClient may fail
NewApiClient ==
    /\ pc = "apiClient"
    /\ IF BuildsApiClient(skipCollectors)
       THEN \E ok \in BOOLEAN :
              IF ok
              THEN /\ apiClient' = Ref([endpoint |-> Deref(connection).Endpoint])
                   /\ clientState' = "open"
                   /\ pc' = "scopeConfig"
                   /\ UNCHANGED ret
              ELSE /\ Return(Nil, "unable to get Zentao API client instance")
                   /\ UNCHANGED <<apiClient, clientState>>
       ELSE /\ pc' = "scopeConfig"
            /\ UNCHANGED <<apiClient, clientState, ret>>
    /\ UNCHANGED <<options, skipCollectors, connections, op, connection, data,
                   releases, dbState, dbAttempts, dbSettings, connLoads,
                   scopeLoads, scopeLoad, taskCtxData, closeErr>>
    /\ UNCHANGED <<homeVars, pipeVars>>

\* taskCtx.GetDal().First(&op.ScopeConfig, dal.Where("id = ?", id)): the row, "record
\* not found", or a storage failure
DalFirstOutcomes(id) ==
    {IF id \in StoredScopeConfigIds THEN NULL ELSE "record not found", "storage failure"}

\* lines 199-204
LoadScopeConfig ==
    /\ pc = "scopeConfig"
    /\ IF LoadsScopeConfig(Deref(op))
       THEN \E err \in DalFirstOutcomes(Deref(op).ScopeConfigId) :
              /\ scopeLoads' = scopeLoads + 1
              /\ scopeLoad' = err
              /\ IF FailsOnScopeConfigError(err)
                 THEN /\ Return(Nil, "fail to load scope config from database")
                      /\ UNCHANGED op
                 ELSE /\ op' = IF err = NULL THEN Ref([Deref(op) EXCEPT !.ScopeConfig = "loaded"]) ELSE op
                      /\ pc' = "buildData"
                      /\ UNCHANGED ret
       ELSE /\ pc' = "buildData"
            /\ UNCHANGED <<op, ret, scopeLoads, scopeLoad>>
    /\ UNCHANGED <<options, skipCollectors, connections, connection, apiClient, data,
                   clientState, releases, dbState, dbAttempts, dbSettings, connLoads,
                   taskCtxData, closeErr>>
    /\ UNCHANGED <<homeVars, pipeVars>>

\* lines 206-213
BuildData ==
    /\ pc = "buildData"
    /\ data' = Ref([Options |-> op, ApiClient |-> apiClient, RemoteDb |-> NULL,
                    HomePageURL |-> <<>>, Stories |-> {}, Tasks |-> {}, Bugs |-> {}])
    /\ pc' = "remoteDb"
    /\ UNCHANGED <<options, skipCollectors, connections, op, connection, apiClient, ret,
                   clientState, releases, dbState, dbAttempts, dbSettings, connLoads,
                   scopeLoads, scopeLoad, taskCtxData, closeErr>>
    /\ UNCHANGED <<homeVars, pipeVars>>

\* lines 215-242; runner.NewGormDb may fail to connect
OpenRemoteDb ==
    /\ pc = "remoteDb"
    /\ IF OpensRemoteDb(skipCollectors, Deref(connection))
       THEN /\ connection' = Ref(WithDbDefaults(Deref(connection)))
            /\ dbAttempts' = dbAttempts + 1
            /\ \E ok \in BOOLEAN :
                 IF ok
                 THEN /\ dbState' = "open"
                      /\ dbSettings' = NewGormDbReads(RemoteDbViper(Deref(connection')))
                      /\ data' = Ref([Deref(data) EXCEPT !.RemoteDb = "remoteDb"])
                      /\ pc' = "homePage"
                      /\ UNCHANGED ret
                 ELSE /\ Return(Nil, "failed to connect to the zentao remote databases")
                      /\ UNCHANGED <<dbState, dbSettings, data>>
       ELSE /\ pc' = "homePage"
            /\ UNCHANGED <<connection, dbAttempts, dbState, dbSettings, data, ret>>
    /\ UNCHANGED <<options, skipCollectors, connections, op, apiClient,
                   clientState, releases, connLoads,
                   scopeLoads, scopeLoad, taskCtxData, closeErr>>
    /\ UNCHANGED <<homeVars, pipeVars>>

\* ApiAsyncClient.GetEndpoint: the endpoint the client was built for
GetEndpoint(client) == Deref(client).endpoint

\* lines 244-254
ResolveHomePage ==
    /\ pc = "homePage"
    /\ LET endpoint == IF Deref(data).ApiClient # Nil
                       THEN GetEndpoint(Deref(data).ApiClient)
                       ELSE Deref(connection).Endpoint
           r == getZentaoHomePage(endpoint)
       IN IF r.err # NULL
          THEN /\ Return(data, r.err)
               /\ UNCHANGED data
          ELSE /\ data' = Ref([Deref(data) EXCEPT !.HomePageURL = r.url])
               /\ Return(data', NULL)
    /\ UNCHANGED <<options, skipCollectors, connections, op, connection, apiClient,
                   clientState, releases, dbState, dbAttempts, dbSettings, connLoads,
                   scopeLoads, scopeLoad, taskCtxData, closeErr>>
    /\ UNCHANGED <<homeVars, pipeVars>>

(***************************************************************************)
(* The host around PrepareTaskData, and Close                              *)
(***************************************************************************)
\* the host keeps what PrepareTaskData returned as the task context's data, and
\* goes on to the subtasks when there was no error
HostSetData ==
    /\ pc = "returned"
    /\ ret.data # Nil
    /\ taskCtxData' = ret.data
    /\ pc' = IF ret.err = NULL THEN "pipeline" ELSE "failed"
    /\ UNCHANGED <<options, skipCollectors, connections, op, connection, apiClient, data,
                   ret, clientState, releases, dbState, dbAttempts, dbSettings, connLoads,
                   scopeLoads, scopeLoad, closeErr>>
    /\ UNCHANGED <<homeVars, pipeVars>>

\* the host gives the run up on an error, keeping no data
HostAbandon ==
    /\ pc = "returned"
    /\ ret.err # NULL
    /\ pc' = "failed"
    /\ UNCHANGED <<options, skipCollectors, connections, op, connection, apiClient, data,
                   ret, clientState, releases, dbState, dbAttempts, dbSettings, connLoads,
                   scopeLoads, scopeLoad, taskCtxData, closeErr>>
    /\ UNCHANGED <<homeVars, pipeVars>>

(***************************************************************************)
(* Home-page resolution applied to every endpoint of a bounded shape       *)
(***************************************************************************)
RECURSIVE SeqsUpTo(_, _)
\* the sequences over S of length at most n
SeqsUpTo(S, n) ==
    IF n = 0
    THEN {<<>>}
    ELSE LET shorter == SeqsUpTo(S, n - 1)
         IN shorter \cup {Append(t, x) : t \in shorter, x \in S}

HomeInputs ==
    {<<>>} \cup
    {<<s, "://", "h">> \o t : s \in SchemeTokens,
                              t \in SeqsUpTo(PathTokens \cup {CtlToken}, MaxPathLen)}

ApplyHomePage ==
    /\ hpPc = "ready"
    /\ hpOut' = getZentaoHomePage(hpIn)
    /\ hpPc' = "done"
    /\ UNCHANGED <<hpIn, prepVars, pipeVars>>

(***************************************************************************)
(* The subtask list, and the host running it in order                      *)
(***************************************************************************)
SubTaskMetasConvertTaskEarly ==
    << "ConvertProject",
       "CollectAccount", "ExtractAccount", "ConvertAccount",
       "CollectDepartment", "ExtractDepartment",
       "CollectExecutionSummary", "ExtractExecutionSummary",
       "CollectExecutionSummaryDev", "ExtractExecutionSummaryDev",
       "CollectTask", "ExtractTask", "ConvertTask",
       "CollectExecution", "ExtractExecution", "ConvertExecution",
       "CollectTaskCommits", "ExtractTaskCommits",
       "DBGetTaskRepoCommits", "ConvertTaskRepoCommits",
       "CollectStory", "ExtractStory", "ConvertStory", "ConvertExecutionStory",
       "CollectBug", "ExtractBug", "ConvertBug",
       "CollectStoryCommits", "ExtractStoryCommits",
       "DBGetStoryRepoCommits", "ConvertStoryRepoCommits",
       "CollectBugCommits", "ExtractBugCommits",
       "DBGetBugRepoCommits", "ConvertBugRepoCommits",
       "DBGetChangelog", "ConvertChangelog",
       "CollectTaskWorklogs", "ExtractTaskWorklogs", "ConvertTaskWorklogs" >>

SubTaskMetas ==
    << "ConvertProject",
       "CollectAccount", "ExtractAccount", "ConvertAccount",
       "CollectDepartment", "ExtractDepartment",
       "CollectExecutionSummary", "ExtractExecutionSummary",
       "CollectExecutionSummaryDev", "ExtractExecutionSummaryDev",
       "CollectExecution", "ExtractExecution", "ConvertExecution",
       "CollectTask", "ExtractTask", "ConvertTask",
       "CollectTaskCommits", "ExtractTaskCommits",
       "DBGetTaskRepoCommits", "ConvertTaskRepoCommits",
       "CollectStory", "ExtractStory", "ConvertStory", "ConvertExecutionStory",
       "CollectBug", "ExtractBug", "ConvertBug",
       "CollectStoryCommits", "ExtractStoryCommits",
       "DBGetStoryRepoCommits", "ConvertStoryRepoCommits",
       "CollectBugCommits", "ExtractBugCommits",
       "DBGetBugRepoCommits", "ConvertBugRepoCommits",
       "DBGetChangelog", "ConvertChangelog",
       "CollectTaskWorklogs", "ExtractTaskWorklogs", "ConvertTaskWorklogs" >>

\* the host starts the next unit of the list once the previous one has ended
StartSubTask ==
    /\ pc = "pipeline"
    /\ ~aborted
    /\ running = NULL
    /\ idx < Len(SubTaskMetas)
    /\ idx' = idx + 1
    /\ running' = SubTaskMetas[idx + 1]
    /\ started' = started \cup {SubTaskMetas[idx + 1]}
    /\ UNCHANGED <<finished, aborted, prepVars, homeVars>>

\* the running unit completes
FinishSubTask ==
    /\ pc = "pipeline"
    /\ running # NULL
    /\ finished' = finished \cup {running}
    /\ running' = NULL
    /\ UNCHANGED <<idx, started, aborted, prepVars, homeVars>>

\* the running unit fails: the run is aborted, no later unit is started
FailSubTask ==
    /\ pc = "pipeline"
    /\ running # NULL
    /\ aborted' = TRUE
    /\ running' = NULL
    /\ UNCHANGED <<idx, started, finished, prepVars, homeVars>>

\* the run is over: PrepareTaskData failed, a unit failed, or every unit has ended
RunEnded ==
    \/ pc = "failed"
    \/ pc = "pipeline" /\ running = NULL /\ (aborted \/ idx = Len(SubTaskMetas))

\* lines 345-354
Close ==
    /\ RunEnded
    /\ IF taskCtxData = Nil
       THEN /\ closeErr' = "GetData failed when try to close"
            /\ UNCHANGED <<clientState, releases>>
       ELSE /\ IF Deref(taskCtxData).ApiClient # Nil
               THEN /\ clientState' = "released"
                    /\ releases' = releases + 1
               ELSE UNCHANGED <<clientState, releases>>
            /\ closeErr' = NULL
    /\ pc' = "closed"
    /\ UNCHANGED <<options, skipCollectors, connections, op, connection, apiClient, data,
                   ret, dbState, dbAttempts, dbSettings, connLoads,
                   scopeLoads, scopeLoad, taskCtxData>>
    /\ UNCHANGED <<homeVars, pipeVars>>

(***************************************************************************)
(* Specifications                                                          *)
(***************************************************************************)
HomeIdle == hpIn = <<>> /\ hpOut = [url |-> <<>>, err |-> NULL] /\ hpPc = "off"
PipeIdle == idx = 0 /\ running = NULL /\ finished = {} /\ started = {} /\ aborted = FALSE

PrepStart ==
    /\ op = Nil
    /\ connection = Nil
    /\ apiClient = Nil
    /\ data = Nil
    /\ ret = [data |-> Nil, err |-> NULL]
    /\ clientState = "none"
    /\ releases = 0
    /\ dbState = "none"
    /\ dbAttempts = 0
    /\ dbSettings = NoSettings
    /\ connLoads = 0
    /\ scopeLoads = 0
    /\ scopeLoad = "none"
    /\ taskCtxData = Nil
    /\ closeErr = "none"

PrepIdle ==
    /\ options = [ConnectionId |-> 0, ScopeConfig |-> NULL, ScopeConfigId |-> 0]
    /\ skipCollectors = FALSE
    /\ connections = [i \in StoredConnectionIds |-> ZeroConnection]
    /\ PrepStart

\* one run: PrepareTaskData, the subtasks in order, then Close
Init ==
    /\ options \in OptionsSet
    /\ skipCollectors \in BOOLEAN
    /\ connections \in [StoredConnectionIds -> ConnectionRows]
    /\ pc = "decode"
    /\ PrepStart
    /\ HomeIdle
    /\ PipeIdle

Next ==
    \/ Decode
    \/ LoadConnection
    \/ NewApiClient
    \/ LoadScopeConfig
    \/ BuildData
    \/ OpenRemoteDb
    \/ ResolveHomePage
    \/ HostSetData
    \/ HostAbandon
    \/ StartSubTask
    \/ FinishSubTask
    \/ FailSubTask
    \/ Close

Spec == Init /\ [][Next]_vars

\* getZentaoHomePage on its own
InitHome ==
    /\ hpIn \in HomeInputs
    /\ hpOut = [url |-> <<>>, err |-> NULL]
    /\ hpPc = "ready"
    /\ pc = "off"
    /\ PrepIdle
    /\ PipeIdle

NextHome == ApplyHomePage

SpecHome == InitHome /\ [][NextHome]_vars

(***************************************************************************)
(* Properties                                                              *)
(***************************************************************************)
\* PrepareTaskData has returned
Returned == pc \in {"returned", "pipeline", "failed", "closed"}
\* the run's connection id names a stored connection, and that connection
ConnectionFound == options.ConnectionId \in StoredConnectionIds
Row == connections[options.ConnectionId]
Succeeded == Returned /\ ret.err = NULL
HoldsBoth(d) == d # Nil /\ Deref(d).ApiClient # Nil /\ Deref(d).RemoteDb # NULL

C2_SkipCollectorsOpensNothing ==
    skipCollectors =>
        /\ clientState = "none" /\ apiClient = Nil
        /\ dbAttempts = 0 /\ dbState = "none"
        /\ data # Nil => (Deref(data).ApiClient = Nil /\ Deref(data).RemoteDb = NULL)
        /\ ret.data # Nil =>
              (Deref(ret.data).ApiClient = Nil /\ Deref(ret.data).RemoteDb = NULL)

C2_Witness ==
    /\ skipCollectors /\ pc = "returned" /\ ret.err = NULL
    /\ Row.DbUrl # ""
    /\ ret.data # Nil

\* C3: after a successful PrepareTaskData and one Close, every acquirer that was opened
\* has been released exactly once and none is still open; Close returns no error.
C3_CloseReleasesEveryAcquirer ==
    (pc = "closed" /\ ret.err = NULL) =>
        /\ closeErr = NULL
        /\ clientState # "open"
        /\ dbState # "open"
        /\ releases = (IF Deref(ret.data).ApiClient # Nil THEN 1 ELSE 0)

\* C4: a run whose endpoint is empty fails, and when it fails in home-page resolution
\* no acquirer has been constructed, with or without SkipCollectors.
C4_EmptyEndpointFailsBeforeAcquirer ==
    (pc = "returned" /\ ConnectionFound /\ options.ConnectionId # 0
       /\ Row.Endpoint = <<>>) =>
        /\ ret.err # NULL
        /\ ret.err = "empty endpoint" =>
              (clientState = "none" /\ dbAttempts = 0 /\ dbState = "none")

\* C5: a scope config referenced by id is loaded once, and a failed load, not found
\* or any other storage error, never ends in a successful task context.
C5_ScopeConfigLoadFailureIsFatal ==
    Returned =>
        /\ scopeLoads <= 1
        /\ scopeLoad = "record not found" =>
              ret.err = "fail to load scope config from database"
        /\ scopeLoad = "storage failure" => ret.err # NULL

\* the prerequisites the units declare, as pairs <<unit, prerequisite>>: Collect
\* before Extract before Convert within a family, and the edges across families
Families ==
    {"Account", "Department", "ExecutionSummary", "ExecutionSummaryDev", "Execution",
     "Task", "TaskCommits", "Story", "Bug", "StoryCommits", "BugCommits", "TaskWorklogs"}
Entities == {"Task", "Story", "Bug"}
Units == {SubTaskMetas[i] : i \in 1..Len(SubTaskMetas)}
DeclaredDeps ==
    ({<<"Extract" \o f, "Collect" \o f>> : f \in Families}
     \cup {<<"Convert" \o f, "Extract" \o f>> : f \in Families}
     \cup {<<"ConvertTask", u>> : u \in {"ExtractTask", "ExtractAccount",
                                          "ConvertAccount", "ConvertExecution"}}
     \cup {<<k \o e \o "RepoCommits", "Extract" \o e \o "Commits">> :
               k \in {"DBGet", "Convert"}, e \in Entities}
     \cup {<<k \o e \o "RepoCommits", "Convert" \o e>> :
               k \in {"DBGet", "Convert"}, e \in Entities}
     \cup {<<"ConvertChangelog", "DBGetChangelog">>}
     \cup {<<"DBGetChangelog", "Extract" \o e>> : e \in Entities})
    \cap (Units \X Units)

\* C7: running the list in order, a unit starts only after each of its declared
\* prerequisites has completed, and ConvertProject is the first unit started.
C7_UnitsStartAfterPrerequisites ==
    /\ \A d \in DeclaredDeps : d[1] \in started => d[2] \in finished
    /\ started # {} => "ConvertProject" \in started
    /\ (started \ {"ConvertProject"}) # {} => "ConvertProject" \in finished

C7_Witness ==
    /\ running = "ConvertChangelog"
    /\ {"DBGetChangelog", "ExtractTask", "ExtractStory", "ExtractBug", "ConvertTask"}
          \subseteq finished
    /\ Cardinality(DeclaredDeps) = 37

\* C8: when the options do not validate or the connection id names no stored
\* connection, PrepareTaskData returns an error and no data, having built no HTTP
\* client, opened no mirror database and loaded no scope config; invalid options do
\* not even reach the connection load, and nothing is opened before the connection
\* has been loaded.
C8_FailFastBeforeAcquirers ==
    /\ (Returned /\ ~ConnectionFound) =>
          /\ ret.err # NULL /\ ret.data = Nil
          /\ clientState = "none" /\ dbAttempts = 0 /\ scopeLoads = 0
          /\ options.ConnectionId = 0 => connLoads = 0
    /\ (clientState # "none" \/ dbAttempts > 0 \/ scopeLoads > 0) =>
          (connLoads = 1 /\ ConnectionFound)

C8_Witness ==
    /\ pc = "returned"
    /\ options.ConnectionId # 0 /\ ~ConnectionFound
    /\ connLoads = 1
    /\ ret.err = "unable to get Zentao connection by the given connection ID"

\* C9: when PrepareTaskData fails after building the HTTP client, the client is not
\* left open at the end of the run.
C9_ClientReleasedAfterFailedPrepare ==
    (pc = "closed" /\ ret.err # NULL) => clientState # "open"

\* C10: the mirror-database opener gets, under the keys it reads, the connection's
\* logging level, idle-connection count and max-connection count, or the process-wide
\* default where the connection leaves one unset.
C10_RemoteDbSettingsReachOpener ==
    dbState = "open" =>
        /\ dbSettings.loggingLevel =
              (IF Row.DbLoggingLevel # "" THEN Row.DbLoggingLevel
               ELSE ProcessConfig.DB_LOGGING_LEVEL)
        /\ dbSettings.idleConns =
              (IF Row.DbIdleConns # 0 THEN Row.DbIdleConns
               ELSE ProcessConfig.DB_IDLE_CONNS)
        /\ dbSettings.maxConns =
              (IF Row.DbMaxConns # 0 THEN Row.DbMaxConns
               ELSE ProcessConfig.DB_MAX_CONNS)

\* C6: for a parseable endpoint whose path contains the segment /api.php/v1, the home
\* page is scheme://host followed by the path with that segment removed and the rest
\* kept; http://h/api.php/v1/ gives http://h/.
C6_HomePageRemovesOnlyTheSegment ==
    hpPc = "done" =>
        LET u == UrlParse(hpIn)
            c == Cut(u.Path, ApiSegment)
        IN /\ (hpIn # <<>> /\ u.err = NULL /\ c.found) =>
                 /\ hpOut.err = NULL
                 /\ hpOut.url = u.Scheme \o <<"://">> \o u.Host \o c.before \o c.after
           /\ hpIn = <<"http", "://", "h", "/", "api.php", "/", "v1", "/">> =>
                 hpOut.url = <<"http", "://", "h", "/">>

====
